---- MODULE Spec2Model ----
(***************************************************************************)
(* A model of rag_tutorial.py: main() runs setup_database(), ingest_data() *)
(* and run_rag_query() in sequence over one PostgreSQL connection and the  *)
(* Ollama embedding and generation services.  Every remote call is one     *)
(* step of the model; its outcome (success, the exception class the stage  *)
(* names, or any other exception) is chosen by the environment.            *)
(*                                                                         *)
(* Text is a sequence of one-character strings.  A vector is held sparsely *)
(* as [dim, head]: dim components, of which head are the leading ones and  *)
(* the remaining ones are 0.                                               *)
(***************************************************************************)
EXTENDS Integers, Sequences, FiniteSets, TLC

\* ------------------------------------------------------------ constants

\* rag_tutorial.py:78
VECTOR_DIMENSION == 768

\* LIMIT 3 of the nearest-neighbour select, rag_tutorial.py:217
TopK == 3

\* ------------------------------------------------------------ bounds

\* longest enumerated document, in characters
MaxDocLen == 3

\* most fragments the generation stream delivers
MaxFragments == 2

\* ------------------------------------------------------------ text

\* characters str.strip() removes that the documents use
Whitespace == {" ", "\n"}

\* the separator of document.split('.')
Separator == "."

\* characters of the enumerated documents
Alphabet == {"A", ".", " ", "?"}

Min(a, b) == IF a <= b THEN a ELSE b

\* every text over Alphabet of 1..MaxDocLen characters
BoundedDocs == UNION {[1..n -> Alphabet] : n \in 1..MaxDocLen}

\* the built-in document of ingest_data, its sentences abridged to one
\* letter each: leading newline and indentation, several sentences per
\* line, the number 11.5 inside a sentence, trailing whitespace
document_builtin ==
  <<"\n", " ", "A", ".", "\n", " ", "B", ".", " ", "C", " ", "1", "1", ".",
    "5", " ", "D", ".", "\n", " ">>

\* the document of the end-to-end scenario, "A. B. C."
DocABC == <<"A", ".", " ", "B", ".", " ", "C", ".">>

Documents == BoundedDocs \cup {document_builtin, DocABC}

\* index of the first Separator of s at or after position k, or Len(s)+1
RECURSIVE NextSep(_, _)
NextSep(s, k) ==
  IF k > Len(s) THEN Len(s) + 1
  ELSE IF s[k] = Separator THEN k
  ELSE NextSep(s, k + 1)

\* str.split(sep) from position k on: the pieces between separators, empty
\* pieces included, one more piece than there are separators
RECURSIVE SplitFrom(_, _)
SplitFrom(s, k) ==
  LET e == NextSep(s, k)
      piece == SubSeq(s, k, e - 1)
  IN  IF e > Len(s) THEN <<piece>>
      ELSE <<piece>> \o SplitFrom(s, e + 1)

Split(s) == SplitFrom(s, 1)

RECURSIVE LStrip(_)
LStrip(s) ==
  IF s = <<>> THEN s
  ELSE IF s[1] \in Whitespace THEN LStrip(Tail(s))
  ELSE s

RECURSIVE RStrip(_)
RStrip(s) ==
  IF s = <<>> THEN s
  ELSE IF s[Len(s)] \in Whitespace THEN RStrip(SubSeq(s, 1, Len(s) - 1))
  ELSE s

\* str.strip()
Strip(s) == RStrip(LStrip(s))

\* [chunk.strip() for chunk in chunks if chunk.strip()]
RECURSIVE StripNonEmpty(_)
StripNonEmpty(ps) ==
  IF ps = <<>> THEN <<>>
  ELSE LET c == Strip(Head(ps))
       IN  IF c # <<>> THEN <<c>> \o StripNonEmpty(Tail(ps))
           ELSE StripNonEmpty(Tail(ps))

\* mutant of Chunks: the empty fragments are dropped but nothing is trimmed
ChunksUntrimmed(doc) == SelectSeq(Split(doc), LAMBDA c : Strip(c) # <<>>)

\* the chunks ingest_data makes of a document
Chunks(doc) == StripNonEmpty(Split(doc))

\* ------------------------------------------------------------ vectors

\* leading components of the vectors the embedding service returns
Directions == {<<1, 0>>, <<0, 2>>, <<-1, 1>>}

Vec(h, n) == [dim |-> n, head |-> h]

\* what client.embeddings(...)['embedding'] can be: a vector of the
\* configured dimension, or one that is a component short or long
ServiceVectors ==
  {Vec(h, VECTOR_DIMENSION) : h \in Directions}
    \cup {Vec(<<1, 0>>, VECTOR_DIMENSION - 1), Vec(<<0, 2>>, VECTOR_DIMENSION + 1)}

\* k-th component of v, 1 <= k <= v.dim
Component(v, k) == IF k <= Len(v.head) THEN v.head[k] ELSE 0

RECURSIVE DotUpTo(_, _, _)
DotUpTo(a, b, k) ==
  IF k = 0 THEN 0
  ELSE Component(a, k) * Component(b, k) + DotUpTo(a, b, k - 1)

\* inner product of two vectors of one dimension (the zero tails add 0)
Dot(a, b) == DotUpTo(a, b, Min(a.dim, Len(a.head)))

\* '[' + ','.join(map(str, query_embedding)) + ']' as a token sequence
VectorStr(v) ==
  IF v.dim = 0 THEN <<"[", "]">>
  ELSE [k \in 1..(2 * v.dim + 1) |->
          IF k = 1 THEN "["
          ELSE IF k = 2 * v.dim + 1 THEN "]"
          ELSE IF k % 2 = 0 THEN Component(v, k \div 2)
          ELSE ","]

\* %s::vector : the vector a literal denotes
ParseVector(s) ==
  LET n == IF Len(s) = 2 THEN 0 ELSE (Len(s) - 1) \div 2
      h == Min(n, 2)
  IN  [dim |-> n, head |-> [k \in 1..h |-> s[2 * k]]]

\* mutant of ColumnAccepts: a column VECTOR without a dimension
ColumnAcceptsAny(v) == TRUE

\* embedding VECTOR(768): the column takes vectors of that dimension only
ColumnAccepts(v) == v.dim = VECTOR_DIMENSION

\* cos(q, x) < cos(q, y), by the signs and squares of q.x/|x| and q.y/|y|
CosLess(q, x, y) ==
  LET sx == Dot(q, x)
      sy == Dot(q, y)
      nx == Dot(x, x)
      ny == Dot(y, y)
  IN  IF sx >= 0 /\ sy >= 0 THEN sx * sx * ny < sy * sy * nx
      ELSE IF sx < 0 /\ sy >= 0 THEN TRUE
      ELSE IF sx >= 0 /\ sy < 0 THEN FALSE
      ELSE sx * sx * ny > sy * sy * nx

\* embedding <=> q : x is strictly nearer to q than y in cosine distance
Nearer(q, x, y) == CosLess(q, y, x)

\* ORDER BY embedding <=> q : distances along the result never decrease
OrderedBy(q, rs) ==
  \A i \in 1..(Len(rs) - 1) : ~Nearer(q, rs[i + 1].embedding, rs[i].embedding)

\* every order in which the rows of table t can come out of the ORDER BY
\* (rows at one distance come in any order)
OrderBy(q, t) ==
  {[i \in 1..Len(t) |-> t[p[i]]] :
     p \in {f \in [1..Len(t) -> 1..Len(t)] :
              /\ \A i, j \in 1..Len(t) : i # j => f[i] # f[j]
              /\ OrderedBy(q, [i \in 1..Len(t) |-> t[f[i]]])}}

\* mutant of Limit: the select without its LIMIT
LimitNone(rs) == rs

\* LIMIT 3
Limit(rs) == SubSeq(rs, 1, Min(TopK, Len(rs)))

\* [row[0] for row in cur.fetchall()]
Contents(rs) == [i \in 1..Len(rs) |-> rs[i].content]

\* " ".join(retrieved_docs)
RECURSIVE Join(_)
Join(ds) ==
  IF ds = <<>> THEN <<>>
  ELSE IF Len(ds) = 1 THEN ds[1]
  ELSE ds[1] \o <<" ">> \o Join(Tail(ds))

\* the text fragments a generation stream delivers
Fragments == {<<"x">>, <<"y">>}

\* ------------------------------------------------------------ state

VARIABLES
  pc,               \* the next remote call of the run, or "done"
  document,         \* the document ingest_data splits
  extInstalled,     \* the database has the vector extension
  tableExists,      \* the database has a table documents
  rows,             \* the records of documents, in insertion order
  nextId,           \* next value of the SERIAL column id
  table0,           \* the table before the run: [exists, rows]
  conn,             \* the connection: "none", "open" or "closed"
  connOpens,        \* number of connections opened
  chunks,           \* ingest_data: the chunks of the document
  idx,              \* ingest_data: position of the current chunk
  embedding,        \* ingest_data: embedding of the current chunk
  embedLog,         \* embeddings the service returned for chunks 1, 2, ...
  query_embedding,  \* run_rag_query: embedding of the question
  fetched,          \* run_rag_query: the rows the select returned
  retrieved_docs,   \* run_rag_query: their contents
  context,          \* run_rag_query: the context block
  full_response,    \* run_rag_query: the accumulated answer
  arrived,          \* fragments the generation stream has delivered
  setupResult,      \* setup_database: "pending", "conn", "None" or "raised"
  ingestResult,     \* ingest_data: "pending", "True" or "False"
  queryResult,      \* run_rag_query: "pending", "None" or "text"
  mainOutcome,      \* main: "running", "returned" or "raised"
  console,          \* the diagnostics the stages wrote, in order
  events,           \* the stage calls and returns of main, in order
  calls,            \* number of remote calls made
  failure           \* the remote call that raised: [call, at, chunk], or NoFailure

vars ==
  <<pc, document, extInstalled, tableExists, rows, nextId, table0, conn,
    connOpens, chunks, idx, embedding, embedLog, query_embedding, fetched,
    retrieved_docs, context, full_response, arrived, setupResult,
    ingestResult, queryResult, mainOutcome, console, events, calls, failure>>

dbVars == <<extInstalled, tableExists, rows, nextId, table0>>
ingestVars == <<chunks, idx, embedding, embedLog>>
queryVars ==
  <<query_embedding, fetched, retrieved_docs, context, full_response, arrived>>

NoFailure == [call |-> "none", at |-> 0, chunk |-> 0]
NoVector == Vec(<<>>, 0)

\* a record an earlier run of the program left in the table
OldRow == [id |-> 1, content |-> <<"A">>, embedding |-> Vec(<<1, 0>>, VECTOR_DIMENSION)]

\* the table as an earlier run can have left it, or no table at all
InitialTables ==
  {[exists |-> FALSE, rows |-> <<>>],
   [exists |-> TRUE, rows |-> <<>>],
   [exists |-> TRUE, rows |-> <<OldRow>>]}

Init ==
  /\ pc = "setup_connect"
  /\ document \in Documents
  /\ extInstalled \in BOOLEAN
  /\ table0 \in InitialTables
  /\ tableExists = table0.exists
  /\ rows = table0.rows
  /\ nextId = Len(table0.rows) + 1
  /\ conn = "none"
  /\ connOpens = 0
  /\ chunks = <<>>
  /\ idx = 0
  /\ embedding = NoVector
  /\ embedLog = <<>>
  /\ query_embedding = NoVector
  /\ fetched = <<>>
  /\ retrieved_docs = <<>>
  /\ context = <<>>
  /\ full_response = <<>>
  /\ arrived = <<>>
  /\ setupResult = "pending"
  /\ ingestResult = "pending"
  /\ queryResult = "pending"
  /\ mainOutcome = "running"
  /\ console = <<>>
  /\ events = <<>>
  /\ calls = 0
  /\ failure = NoFailure

\* ------------------------------------------------------------ setup_database

\* what a statement on the connection does in setup_database: succeeds, raises
\* psycopg.OperationalError, or raises another psycopg error
SetupOutcomes == {"ok", "OperationalError", "Error"}

\* except psycopg.OperationalError (line 126): the only class setup catches
SetupCatches(exc) == exc = "OperationalError"

\* mutant of AfterSetup: main goes on whatever setup_database returned
AfterSetupAlways(result) == "ingest_start"

\* main lines 265-267: if conn is None: return
AfterSetup(result) == IF result = "None" THEN "done" ELSE "ingest_start"

\* mutant of AfterIngest: main goes on whatever ingest_data returned
AfterIngestAlways(result) == "query_start"

\* main lines 270-273: if not ingestion_success: conn.close(); return
AfterIngest(result) == IF result = "False" THEN "done" ELSE "query_start"

\* mutant of ExtensionMissing: the result of the check is not looked at
ExtensionNeverMissing(installed) == FALSE

\* line 103: cur.fetchone() is None
ExtensionMissing(installed) == ~installed

\* mutant of Dropped: the table of the earlier run is kept
NotDropped(rs) == rs

\* line 112: the records of documents after DROP TABLE IF EXISTS
Dropped(rs) == <<>>

\* setup_database leaves by an exception of class exc raised by remote call
\* `call`: caught and reported (return None, main returns), or propagated
\* out of setup_database and out of main.  conn.close() is on neither path.
SetupRaise(call, exc) ==
  /\ failure' = [call |-> call, at |-> calls + 1, chunk |-> 0]
  /\ IF SetupCatches(exc)
       THEN /\ console' = Append(console, "connect_error")
            /\ setupResult' = "None"
            /\ events' = Append(events, "setup:return")
            /\ pc' = AfterSetup("None")
            /\ mainOutcome' = IF pc' = "done" THEN "returned" ELSE mainOutcome
       ELSE /\ console' = console
            /\ setupResult' = "raised"
            /\ events' = Append(events, "setup:raise")
            /\ pc' = "done"
            /\ mainOutcome' = "raised"

\* main line 265, setup_database lines 86-98: psycopg.connect
SetupConnect ==
  /\ pc = "setup_connect"
  /\ calls' = calls + 1
  /\ \E out \in {"ok", "OperationalError"} :
       IF out = "ok"
         THEN /\ conn' = "open"
              /\ connOpens' = connOpens + 1
              /\ pc' = "setup_check"
              /\ events' = Append(events, "setup:call")
              /\ UNCHANGED <<failure, console, setupResult, mainOutcome>>
         ELSE /\ failure' = [call |-> "connect", at |-> calls + 1, chunk |-> 0]
              /\ console' = Append(console, "connect_error")
              /\ setupResult' = "None"
              /\ events' = events \o <<"setup:call", "setup:return">>
              /\ pc' = AfterSetup("None")
              /\ mainOutcome' = IF pc' = "done" THEN "returned" ELSE mainOutcome
              /\ UNCHANGED <<conn, connOpens>>
  /\ UNCHANGED <<document, dbVars, ingestVars, queryVars, ingestResult, queryResult>>

\* lines 100-109: SELECT 1 FROM pg_extension WHERE extname = 'vector'
SetupCheckExtension ==
  /\ pc = "setup_check"
  /\ calls' = calls + 1
  /\ \E out \in SetupOutcomes :
       IF out # "ok" THEN SetupRaise("check_extension", out)
       ELSE IF ExtensionMissing(extInstalled)
         THEN /\ console' = Append(console, "no_extension")
              /\ setupResult' = "None"
              /\ events' = Append(events, "setup:return")
              /\ pc' = AfterSetup("None")
              /\ mainOutcome' = IF pc' = "done" THEN "returned" ELSE mainOutcome
              /\ UNCHANGED failure
         ELSE /\ pc' = "setup_drop"
              /\ UNCHANGED <<failure, console, setupResult, events, mainOutcome>>
  /\ UNCHANGED <<document, dbVars, conn, connOpens, ingestVars, queryVars,
                 ingestResult, queryResult>>

\* line 112: DROP TABLE IF EXISTS documents
SetupDropTable ==
  /\ pc = "setup_drop"
  /\ calls' = calls + 1
  /\ \E out \in SetupOutcomes :
       IF out # "ok"
         THEN /\ SetupRaise("drop_table", out)
              /\ UNCHANGED <<tableExists, rows>>
         ELSE /\ tableExists' = FALSE
              /\ rows' = Dropped(rows)
              /\ pc' = "setup_create"
              /\ UNCHANGED <<failure, console, setupResult, events, mainOutcome>>
  /\ UNCHANGED <<document, extInstalled, nextId, table0, conn, connOpens,
                 ingestVars, queryVars, ingestResult, queryResult>>

\* lines 115-124: CREATE TABLE documents (...); return conn.  The statement
\* needs the type vector, which the extension defines; the new table is
\* empty and its SERIAL sequence starts at 1.
SetupCreateTable ==
  /\ pc = "setup_create"
  /\ calls' = calls + 1
  /\ \E out \in SetupOutcomes :
       IF out # "ok" \/ ~extInstalled
         THEN /\ SetupRaise("create_table", IF out = "ok" THEN "Error" ELSE out)
              /\ UNCHANGED <<tableExists, nextId>>
         ELSE /\ tableExists' = TRUE
              /\ nextId' = 1
              /\ setupResult' = "conn"
              /\ events' = Append(events, "setup:return")
              /\ pc' = AfterSetup("conn")
              /\ UNCHANGED <<failure, console, mainOutcome>>
  /\ UNCHANGED <<document, extInstalled, rows, table0, conn, connOpens,
                 ingestVars, queryVars, ingestResult, queryResult>>

\* ------------------------------------------------------------ ingest_data

\* what a call of the Ollama client does besides succeed: raise
\* ollama.RequestError / ollama.ResponseError, or any other exception
OllamaExceptions == {"ResponseError", "Exception"}

\* lines 174-180: both handlers report and return False; main lines 271-273
\* then closes the connection and returns
IngestFail(call, exc) ==
  /\ failure' = [call |-> call, at |-> calls + 1, chunk |-> idx]
  /\ console' = Append(console, IF exc = "ResponseError" THEN "ollama_error"
                                ELSE "unexpected_ingest")
  /\ ingestResult' = "False"
  /\ events' = Append(events, "ingest:return")
  /\ pc' = AfterIngest("False")
  /\ conn' = IF pc' = "done" THEN "closed" ELSE conn
  /\ mainOutcome' = IF pc' = "done" THEN "returned" ELSE mainOutcome

\* main line 270, ingest_data lines 137-156: split the document into chunks
IngestStart ==
  /\ pc = "ingest_start"
  /\ chunks' = Chunks(document)
  /\ idx' = 1
  /\ events' = Append(events, "ingest:call")
  /\ pc' = "ingest_embed"
  /\ UNCHANGED <<document, dbVars, conn, connOpens, embedding, embedLog,
                 queryVars, setupResult, ingestResult, queryResult,
                 mainOutcome, console, calls, failure>>

\* lines 157-165: client.embeddings(model, prompt=chunk) for the next chunk
IngestEmbed ==
  /\ pc = "ingest_embed"
  /\ idx <= Len(chunks)
  /\ calls' = calls + 1
  /\ \/ \E v \in ServiceVectors :
          /\ embedding' = v
          /\ embedLog' = Append(embedLog, v)
          /\ pc' = "ingest_insert"
          /\ UNCHANGED <<failure, console, ingestResult, events, conn, mainOutcome>>
     \/ \E exc \in OllamaExceptions :
          /\ IngestFail("embed", exc)
          /\ UNCHANGED <<embedding, embedLog>>
  /\ UNCHANGED <<document, dbVars, connOpens, chunks, idx, queryVars,
                 setupResult, queryResult>>

\* lines 168-172: INSERT INTO documents (content, embedding) VALUES (...).
\* autocommit=True (line 95): the record is committed by the statement.
IngestInsert ==
  /\ pc = "ingest_insert"
  /\ calls' = calls + 1
  /\ \/ /\ ColumnAccepts(embedding)
        /\ rows' = Append(rows, [id |-> nextId, content |-> chunks[idx],
                                 embedding |-> embedding])
        /\ nextId' = nextId + 1
        /\ idx' = idx + 1
        /\ pc' = "ingest_embed"
        /\ UNCHANGED <<failure, console, ingestResult, events, conn, mainOutcome>>
     \/ /\ IngestFail("insert", "Exception")
        /\ UNCHANGED <<rows, nextId, idx>>
  /\ UNCHANGED <<document, extInstalled, tableExists, table0, connOpens,
                 chunks, embedding, embedLog, queryVars, setupResult, queryResult>>

\* lines 182-183: every chunk is stored; return True.  main line 276.
IngestComplete ==
  /\ pc = "ingest_embed"
  /\ idx > Len(chunks)
  /\ ingestResult' = "True"
  /\ events' = Append(events, "ingest:return")
  /\ pc' = AfterIngest("True")
  /\ UNCHANGED <<document, dbVars, conn, connOpens, ingestVars, queryVars,
                 setupResult, queryResult, mainOutcome, console, calls, failure>>

\* ------------------------------------------------------------ run_rag_query

\* mutant of ExceptReturn: the handlers return the text accumulated so far
ExceptReturnPartial == "text"

\* lines 254, 257: what run_rag_query returns from its exception handlers
ExceptReturn == "None"

\* line 245: full_response += response_text
Accumulate(acc, text) == acc \o text

\* lines 251-257: both handlers report and return None; main line 282 then
\* closes the connection
QueryFail(call, exc) ==
  /\ failure' = [call |-> call, at |-> calls + 1, chunk |-> 0]
  /\ console' = Append(console, IF exc = "ResponseError" THEN "ollama_error"
                                ELSE "unexpected_rag")
  /\ queryResult' = ExceptReturn
  /\ events' = Append(events, "query:return")
  /\ conn' = "closed"
  /\ mainOutcome' = "returned"
  /\ pc' = "done"

\* main lines 279-280, run_rag_query lines 193-195
QueryStart ==
  /\ pc = "query_start"
  /\ events' = Append(events, "query:call")
  /\ pc' = "query_embed"
  /\ UNCHANGED <<document, dbVars, conn, connOpens, ingestVars, queryVars,
                 setupResult, ingestResult, queryResult, mainOutcome, console,
                 calls, failure>>

\* lines 199-203: client.embeddings(model, prompt=user_query)
QueryEmbed ==
  /\ pc = "query_embed"
  /\ calls' = calls + 1
  /\ \/ \E v \in ServiceVectors :
          /\ query_embedding' = v
          /\ pc' = "query_select"
          /\ UNCHANGED <<failure, console, queryResult, events, conn, mainOutcome>>
     \/ \E exc \in OllamaExceptions :
          /\ QueryFail("embed_query", exc)
          /\ UNCHANGED query_embedding
  /\ UNCHANGED <<document, dbVars, connOpens, ingestVars, fetched,
                 retrieved_docs, context, full_response, arrived, setupResult,
                 ingestResult>>

\* the distance operator raises on vectors of different dimensions
SelectRaises(q, t) == \E i \in 1..Len(t) : t[i].embedding.dim # q.dim

\* lines 207-228: SELECT content FROM documents ORDER BY embedding <=> q
\* LIMIT 3, the fetch, and the context block
QuerySelect ==
  /\ pc = "query_select"
  /\ calls' = calls + 1
  /\ LET q == ParseVector(VectorStr(query_embedding))
     IN  \/ /\ ~SelectRaises(q, rows)
            /\ \E rs \in OrderBy(q, rows) :
                 /\ fetched' = Limit(rs)
                 /\ retrieved_docs' = Contents(Limit(rs))
                 /\ context' = Join(Contents(Limit(rs)))
            /\ pc' = "query_generate"
            /\ UNCHANGED <<failure, console, queryResult, events, conn, mainOutcome>>
         \/ /\ QueryFail("select", "Exception")
            /\ UNCHANGED <<fetched, retrieved_docs, context>>
  /\ UNCHANGED <<document, dbVars, connOpens, ingestVars, query_embedding,
                 full_response, arrived, setupResult, ingestResult>>

\* lines 235-242: client.generate(model, prompt, stream=True)
QueryGenerate ==
  /\ pc = "query_generate"
  /\ calls' = calls + 1
  /\ \/ /\ full_response' = <<>>
        /\ pc' = "query_stream"
        /\ UNCHANGED <<failure, console, queryResult, events, conn, mainOutcome>>
     \/ \E exc \in OllamaExceptions :
          /\ QueryFail("generate", exc)
          /\ UNCHANGED full_response
  /\ UNCHANGED <<document, dbVars, connOpens, ingestVars, query_embedding,
                 fetched, retrieved_docs, context, arrived, setupResult,
                 ingestResult>>

\* lines 243-246: the stream delivers one more fragment
QueryStreamFragment ==
  /\ pc = "query_stream"
  /\ Len(arrived) < MaxFragments
  /\ calls' = calls + 1
  /\ \E f \in Fragments :
       /\ arrived' = Append(arrived, f)
       /\ full_response' = Accumulate(full_response, f)
  /\ UNCHANGED <<pc, document, dbVars, conn, connOpens, ingestVars,
                 query_embedding, fetched, retrieved_docs, context,
                 setupResult, ingestResult, queryResult, mainOutcome, console,
                 events, failure>>

\* line 243: reading the stream raises
QueryStreamFail ==
  /\ pc = "query_stream"
  /\ calls' = calls + 1
  /\ \E exc \in OllamaExceptions : QueryFail("stream", exc)
  /\ UNCHANGED <<document, dbVars, connOpens, ingestVars, queryVars,
                 setupResult, ingestResult>>

\* lines 243, 248-249: the stream ends; return full_response.  main line 282.
QueryStreamEnd ==
  /\ pc = "query_stream"
  /\ queryResult' = "text"
  /\ events' = Append(events, "query:return")
  /\ conn' = "closed"
  /\ mainOutcome' = "returned"
  /\ pc' = "done"
  /\ UNCHANGED <<document, dbVars, connOpens, ingestVars, queryVars,
                 setupResult, ingestResult, console, calls, failure>>

\* ------------------------------------------------------------ specification

Next ==
  \/ SetupConnect
  \/ SetupCheckExtension
  \/ SetupDropTable
  \/ SetupCreateTable
  \/ IngestStart
  \/ IngestEmbed
  \/ IngestInsert
  \/ IngestComplete
  \/ QueryStart
  \/ QueryEmbed
  \/ QuerySelect
  \/ QueryGenerate
  \/ QueryStreamFragment
  \/ QueryStreamFail
  \/ QueryStreamEnd

Spec == Init /\ [][Next]_vars

\* ------------------------------------------------------------ properties

Range(f) == {f[i] : i \in DOMAIN f}

\* the run is over
Terminated == pc = "done"

\* C1: in every run the connection is opened at most once and, once opened,
\* it is closed on every exit path: no run terminates with an opened
\* connection left unclosed.
C1_ConnectionClosedOnEveryExit ==
  /\ connOpens <= 1
  /\ (Terminated /\ connOpens > 0) => conn = "closed"

\* C2: an exception raised by a remote call in any stage is caught inside the
\* stage, reported on the console and aborts the run: nothing propagates out
\* of main, no later stage starts and the failed call is not retried.
C2_RemoteFailureCaughtAndReported ==
  failure # NoFailure =>
    /\ mainOutcome = "returned"
    /\ console # <<>>
    /\ Terminated
    /\ calls = failure.at
    /\ events[Len(events)] \in {"setup:return", "ingest:return", "query:return"}

\* C3: when the embedding request for the k-th chunk fails, ingestion returns
\* failure at once, nothing after the k-th chunk is embedded or inserted, the
\* table holds exactly the records of chunks 1..k-1, each with its own text
\* and the vector the service returned for it, and run_rag_query is not called.
C3_EmbeddingFailureStopsIngestion ==
  failure.call = "embed" =>
    LET k == failure.chunk
    IN  /\ k >= 1
        /\ ingestResult = "False"
        /\ Terminated
        /\ calls = failure.at
        /\ Len(embedLog) = k - 1
        /\ Len(rows) = k - 1
        /\ \A j \in 1..(k - 1) :
             /\ rows[j].content = Chunks(document)[j]
             /\ rows[j].embedding = embedLog[j]
        /\ "query:call" \notin Range(events)

C3_Witness ==
  /\ failure.call = "embed"
  /\ failure.chunk = 3
  /\ Len(rows) = 2
  /\ rows[1].embedding # rows[2].embedding
  /\ table0.rows # <<>>

\* the characters between the last period before position i and i
SinceLastPeriod(d, i) ==
  {j \in 1..(i - 1) : \A m \in j..(i - 1) : d[m] # "."}

\* the number of period-delimited fragments of d that hold a character other
\* than whitespace: one per first such character of a fragment
FragmentCount(d) ==
  Cardinality({i \in 1..Len(d) :
                 /\ d[i] \notin Whitespace \cup {"."}
                 /\ \A j \in SinceLastPeriod(d, i) : d[j] \in Whitespace})

C5_StoredVectorsHaveConfiguredDimension ==
  \A i \in 1..Len(rows) : rows[i].embedding.dim = VECTOR_DIMENSION

C5_Witness ==
  /\ failure.call = "insert"
  /\ embedding.dim = VECTOR_DIMENSION + 1
  /\ failure.chunk = 2
  /\ Len(rows) = 1

\* the select of run_rag_query has returned its rows
SelectDone ==
  \/ pc \in {"query_generate", "query_stream"}
  \/ failure.call \in {"generate", "stream"}
  \/ queryResult = "text"

Ids(rs) == {rs[i].id : i \in 1..Len(rs)}

\* C6: the retrieval returns min(3, number of records) records, so at most 3,
\* in order of non-decreasing cosine distance to the query vector; no record
\* left out is strictly nearer than a returned one, and the first returned
\* record is a stored record of minimal distance.
C6_RetrievalReturnsNearestThree ==
  SelectDone =>
    /\ Len(fetched) = Min(3, Len(rows))
    /\ Len(fetched) <= 3
    /\ Range(fetched) \subseteq Range(rows)
    /\ Cardinality(Ids(fetched)) = Len(fetched)
    /\ retrieved_docs = [i \in 1..Len(fetched) |-> fetched[i].content]
    /\ \A i, j \in 1..Len(fetched) :
         i < j => ~Nearer(query_embedding, fetched[j].embedding, fetched[i].embedding)
    /\ \A r \in Range(rows) : \A i \in 1..Len(fetched) :
         r.id \notin Ids(fetched) =>
           ~Nearer(query_embedding, r.embedding, fetched[i].embedding)
    /\ fetched # <<>> =>
         \A r \in Range(rows) :
           ~Nearer(query_embedding, r.embedding, fetched[1].embedding)

C6_Witness ==
  /\ SelectDone
  /\ Len(rows) = 4
  /\ Len(fetched) = 3
  /\ Nearer(query_embedding, fetched[1].embedding, fetched[2].embedding)
  /\ Nearer(query_embedding, fetched[2].embedding, fetched[3].embedding)
  /\ \E r \in Range(rows) : r.id \notin Ids(fetched)

RECURSIVE Flatten(_)
Flatten(ss) == IF ss = <<>> THEN <<>> ELSE Head(ss) \o Flatten(Tail(ss))

\* C8: when a remote call of run_rag_query fails (embedding the question, the
\* select, starting the generation, reading the stream, also after fragments
\* were delivered) it returns None and no partial answer; it returns text only
\* when the stream was read to its end, and the text is all fragments in the
\* order of their arrival.
C8_NoPartialAnswer ==
  /\ failure.call \in {"embed_query", "select", "generate", "stream"} =>
       queryResult = "None"
  /\ queryResult = "text" =>
       /\ failure = NoFailure
       /\ Terminated
       /\ full_response = Flatten(arrived)
  /\ queryResult = "None" => failure.call \in {"embed_query", "select", "generate", "stream"}

C8_Witness ==
  /\ failure.call = "stream"
  /\ arrived = <<<<"x">>, <<"y">>>>
  /\ full_response = <<"x", "y">>
  /\ queryResult = "None"

\* punctuation that ends a sentence
SentenceTerminators == {".", "?", "!"}

\* d[a..b] is a fragment of d delimited by the characters of T, trimmed: it
\* holds no delimiter, begins and ends with a character that is not
\* whitespace, and only whitespace lies between it and the delimiters (or
\* the ends of d) around it
IsTrimmedFragment(T, d, a, b) ==
  /\ a <= b
  /\ \A m \in a..b : d[m] \notin T
  /\ d[a] \notin Whitespace
  /\ d[b] \notin Whitespace
  /\ \A j \in 1..(a - 1) : (\A m \in j..(a - 1) : d[m] \notin T) => d[j] \in Whitespace
  /\ \A j \in (b + 1)..Len(d) : (\A m \in (b + 1)..j : d[m] \notin T) => d[j] \in Whitespace

FragmentSpans(T, d) ==
  {sp \in (1..Len(d)) \X (1..Len(d)) : IsTrimmedFragment(T, d, sp[1], sp[2])}

\* the trimmed non-empty fragments of d delimited by T, in document order
FragmentsOf(T, d) ==
  LET spans == FragmentSpans(T, d)
      nth(i) == CHOOSE sp \in spans :
                  Cardinality({o \in spans : o[1] < sp[1]}) = i - 1
  IN  [i \in 1..Cardinality(spans) |-> SubSeq(d, nth(i)[1], nth(i)[2])]

\* the records written so far are the first fragments of the document
\* delimited by T, in document order, and once ingestion is through they
\* are all of them; no stored chunk is empty, starts or ends with
\* whitespace, or holds a delimiter
StoredChunksAreFragments(T) ==
  pc \in {"ingest_embed", "query_start"} =>
    LET frags == FragmentsOf(T, document)
        stored == Contents(rows)
    IN  /\ Len(stored) <= Len(frags)
        /\ stored = SubSeq(frags, 1, Len(stored))
        /\ pc = "query_start" => stored = frags
        /\ \A i \in 1..Len(stored) :
             /\ stored[i] # <<>>
             /\ stored[i][1] \notin Whitespace
             /\ stored[i][Len(stored[i])] \notin Whitespace
             /\ \A m \in 1..Len(stored[i]) : stored[i][m] \notin T
        /\ (document = DocABC /\ pc = "query_start") =>
             stored = << <<"A">>, <<"B">>, <<"C">> >>

AllStages ==
  <<"setup:call", "setup:return", "ingest:call", "ingest:return",
    "query:call", "query:return">>

\* C10: the stages run in the order setup_database, ingest_data,
\* run_rag_query, each at most once and never overlapping: ingest_data starts
\* only after setup_database returned an open connection, run_rag_query only
\* after ingest_data returned success, and no stage is entered again.
C10_StagesInStrictOrder ==
  /\ \/ \E n \in 0..Len(AllStages) : events = SubSeq(AllStages, 1, n)
     \/ events = <<"setup:call", "setup:raise">>
  /\ "ingest:call" \in Range(events) => setupResult = "conn" /\ connOpens = 1
  /\ (Len(events) >= 3 /\ events[Len(events)] = "ingest:call") => conn = "open"
  /\ "query:call" \in Range(events) => ingestResult = "True"
  /\ (Len(events) >= 5 /\ events[Len(events)] = "query:call") => conn = "open"

C10_Witness ==
  /\ events = AllStages
  /\ queryResult = "text"
  /\ Len(rows) = 3

====
